---- MODULE Spec2Model ----
(***************************************************************************)
(* Controlled deepPopulate middleware (strapi/src/middlewares): the depth  *)
(* evaluator shouldStopAtCurrentDepth, the recursive builder               *)
(* getDeepPopulate run as an explicit call stack, and the Koa middleware   *)
(* that attaches the built directive to ctx.query.populate.                *)
(***************************************************************************)
EXTENDS Integers, Sequences, FiniteSets, TLC

\* ------------------------------------------------------------------ bounds
MaxStack == 6
MaxOverride == 4

\* ------------------------------------------------- depth caps of the code
ShallowDepth == 1
MediumDepth == 2
DefaultDepth == 3

\* ------------------------------------------------------- type identifiers
ART == "api::article.article"
ROLE == "api::role.role"
TAG == "api::tag.tag"
GHOST == "api::ghost.ghost"
FAULT == "api::fault.fault"
BTN == "shared.button"
ADMIN == "admin::user"

UIDs == {ART, ROLE, TAG, GHOST, FAULT, BTN, ADMIN}

CREATED_BY_ATTRIBUTE == "createdBy"
UPDATED_BY_ATTRIBUTE == "updatedBy"

\* attribute.relation.toLowerCase().startsWith('morph')
isMorphRelation(attribute) ==
    attribute.relation \in {"morphToMany", "morphToOne", "morphOne", "morphMany"}

\* ------------------------------------------------------------- directives
EmptyMap == [k \in {} |-> TRUE]

\* '*'
Wildcard == [t |-> "wildcard", m |-> EmptyMap]
\* the accumulated object literal of the reduce
Mapping(m) == [t |-> "mapping", m |-> m]
\* { populate: d }
Populate(d) == [t |-> "populate", v |-> d]
\* { on: m }
OnVariants(m) == [t |-> "on", v |-> m]
\* { populate: { f1: true, f2: true } }
FieldList(fields) == Populate([t |-> "fields", m |-> [f \in fields |-> TRUE]])

\* the result of the recursion is wrapped without the fallback
WrapNested_noFallback(nested) == Populate(nested)

\* typeof nested === 'object' && Object.keys(nested).length > 0
WrapNested(nested) ==
    IF nested.t = "mapping" /\ DOMAIN nested.m # {}
    THEN Populate(nested)
    ELSE Populate(Wildcard)

\* values of ctx.query.populate other than a built directive
Undefined == [t |-> "undefined", m |-> EmptyMap]
EmptyString == [t |-> "emptystring", m |-> EmptyMap]
CallerDirective == [t |-> "caller", m |-> EmptyMap]

\* ------------------------------------------------------------ path keys
RECURSIVE getPathKey(_)
getPathKey(path) ==
    IF Len(path) = 0 THEN ""
    ELSE IF Len(path) = 1 THEN path[1]
    ELSE getPathKey(SubSeq(path, 1, Len(path) - 1)) \o "." \o path[Len(path)]

\* ------------------------------------------------------ schema registry
CTA == "dynamic-zone.cta"
CARD == "shared.card"

Attribute(name, type, relation, target, component, components, visible) ==
    [name |-> name, type |-> type, relation |-> relation, target |-> target,
     component |-> component, components |-> components, visible |-> visible]

Scalar(name) == Attribute(name, "string", "", "", "", <<>>, TRUE)
Media(name) == Attribute(name, "media", "", "", "", <<>>, TRUE)
Relation(name, relation, target, visible) ==
    Attribute(name, "relation", relation, target, "", <<>>, visible)
Component(name, component) ==
    Attribute(name, "component", "", "", component, <<>>, TRUE)
DynamicZone(name, components) ==
    Attribute(name, "dynamiczone", "", "", "", components, TRUE)

Model(attributes) == [status |-> "ok", attributes |-> attributes]
NoModel == [status |-> "undefined", attributes |-> <<>>]
ThrowingModel == [status |-> "throws", attributes |-> <<>>]

\* The content-type and component schemas registered with strapi; the
\* targets t1, t2 and c2 range over the registry so that the graph can be
\* acyclic, self-referential, mutually referential or dangling.
SchemaGraph(t1, t2, c2) ==
    [u \in UIDs \cup {CTA, CARD} |->
       CASE u = ART ->
              Model(<< Scalar("title"),
                       Media("cover"),
                       Relation("author", "manyToOne", t1, TRUE),
                       Relation(CREATED_BY_ATTRIBUTE, "oneToOne", ADMIN, FALSE),
                       DynamicZone("blocks", <<CTA, CARD>>) >>)
         [] u = ROLE ->
              Model(<< Relation("users", "oneToMany", t2, TRUE),
                       Relation("owner", "morphToOne", "", TRUE),
                       Relation(UPDATED_BY_ATTRIBUTE, "oneToOne", ADMIN, FALSE),
                       Relation("secret", "oneToOne", TAG, FALSE) >>)
         [] u = TAG ->
              Model(<< Component("badge", CARD),
                       Relation("articles", "manyToMany", ART, TRUE) >>)
         [] u = CTA ->
              Model(<< Component("ctas", BTN),
                       Scalar("heading"),
                       Scalar("sub_heading") >>)
         [] u = BTN ->
              Model(<< Scalar("target"), Scalar("text"),
                       Scalar("url"), Scalar("variant") >>)
         [] u = CARD ->
              Model(<< Media("icon"),
                       Component("inner", c2),
                       Relation("link", "manyToOne", ROLE, TRUE) >>)
         [] u = ADMIN -> Model(<< Scalar("email") >>)
         [] u = FAULT -> ThrowingModel
         [] OTHER -> NoModel]

SchemaGraphs ==
    { SchemaGraph(t1, t2, c2) :
        t1 \in {ROLE, ART, GHOST}, t2 \in {TAG, ROLE}, c2 \in {CARD, GHOST, FAULT} }

\* ------------------------------------------------------------ DEPTH_CONFIG
ShippedShallow == {"api::user.user", ROLE, "api::permission.permission"}

Config(shallow, medium, paths, exclude, include) ==
    [shallowPopulate |-> shallow, mediumPopulate |-> medium,
     pathDepths |-> paths, excludeFields |-> exclude,
     includeOnlyFields |-> include]

NoEntries == [k \in {} |-> {}]
NoPathDepths == [k \in {} |-> 0]

OverridePaths == {"author", "author.users.badge", "blocks.shared.card"}

PathDepthTables ==
    {NoPathDepths} \cup
    { (p :> n) : p \in OverridePaths, n \in 0..MaxOverride }

ExcludeTables ==
    { NoEntries,
      (ROLE :> {"users", UPDATED_BY_ATTRIBUTE}),
      (ART :> {"cover", "blocks"}) }

IncludeOnlyTables ==
    { NoEntries,
      ("author.users" :> {"id"}) @@ ("author.owner" :> {"id", "name"})
         @@ ("author." \o UPDATED_BY_ATTRIBUTE :> {"id"}) }

DepthConfigs ==
    { Config(sh, md, pd, NoEntries, NoEntries) :
        sh \in {{}, ShippedShallow, {CARD}}, md \in {{}, {ROLE}, {TAG}},
        pd \in PathDepthTables }
    \cup
    { Config(sh, {}, NoPathDepths, ex, inc) :
        sh \in {{}, ShippedShallow}, ex \in ExcludeTables,
        inc \in IncludeOnlyTables }

\* ----------------------------------------------------------------- URLs
\* A URL is the sequence of its maximal runs of characters other than '/'
\* and '?', with the separators kept as tokens of their own.
ApiPrefix == <<"/", "api", "/">>
AdminPrefix == <<"/", "admin", "/">>

ContentTypeNames ==
    {"articles", "roles", "tags", "ghosts", "faults", "s",
     "users", "users-groups", "seo"}

\* token.startsWith(word), for the tokens and words of the model
TokenStartsWith(token, word) ==
    \/ token = word
    \/ token = "users-groups" /\ word = "users"

\* /^\d+$/.test(token)
IsDigits(token) == token \in {"7", "42"}

UrlSuffixes == { <<>>, <<"/">>, <<"/", "7">>, <<"/", "abc">> }
UrlQueries == { <<>>, <<"?", "ref=", "/", "api", "/", "seo">> }

Urls ==
    { prefix \o <<name>> \o suffix \o q :
        prefix \in {ApiPrefix, AdminPrefix}, name \in ContentTypeNames,
        suffix \in UrlSuffixes, q \in UrlQueries }

\* url.startsWith('/api/')
startsWithApi(url) == Len(url) >= 3 /\ SubSeq(url, 1, 3) = ApiPrefix

\* url.includes('/api/' + word)
includesApi(url, word) ==
    \E i \in 1..Len(url) :
       /\ i + 3 <= Len(url)
       /\ SubSeq(url, i, i + 2) = ApiPrefix
       /\ TokenStartsWith(url[i + 3], word)

\* url.split('?')[0]
RECURSIVE beforeQuery(_)
beforeQuery(url) ==
    IF url = <<>> \/ Head(url) = "?" THEN <<>>
    ELSE <<Head(url)>> \o beforeQuery(Tail(url))

\* path.match(/^\/api\/([^/?]+)(?:\/|\/\d+)?$/) ? match[1] : ''
extractPathSegment(url) ==
    LET path == beforeQuery(url) IN
    IF /\ Len(path) \in 4..6
       /\ SubSeq(path, 1, 3) = ApiPrefix
       /\ path[4] # "/"
       /\ Len(path) >= 5 => path[5] = "/"
       /\ Len(path) = 6 => IsDigits(path[6])
    THEN path[4]
    ELSE ""

\* pluralize.singular(word), on the words of the model
singular(word) ==
    CASE word = "articles" -> "article"
      [] word = "roles" -> "role"
      [] word = "tags" -> "tag"
      [] word = "ghosts" -> "ghost"
      [] word = "faults" -> "fault"
      [] word = "users" -> "user"
      [] word = "users-groups" -> "users-group"
      [] word = "s" -> ""
      [] OTHER -> word

\* `api::${singular}.${singular}`
uidOf(word) == "api::" \o word \o "." \o word

Request(url, method, populate) ==
    [url |-> url, method |-> method, populate |-> populate]

Requests ==
    { Request(url, method, populate) :
        url \in Urls, method \in {"GET", "POST"},
        populate \in {Undefined, EmptyString, CallerDirective} }

\* the requests that drive the builder, and one of each bypassing kind
BuilderRequests ==
    { Request(ApiPrefix \o <<name>>, "GET", Undefined) :
        name \in {"articles", "roles", "tags", "ghosts", "faults", "s"} }
    \cup
    { Request(ApiPrefix \o <<"articles">>, "POST", Undefined),
      Request(ApiPrefix \o <<"articles">>, "GET", CallerDirective),
      Request(ApiPrefix \o <<"articles", "/", "abc">>, "GET", Undefined) }

\* !ctx.query.populate
IsFalsy(populate) == populate \in {Undefined, EmptyString}

\* ---------------------------------------------------------------- state
VARIABLES
    DEPTH_CONFIG,     \* the static configuration table
    schemas,          \* strapi's schema registry
    request,          \* the inbound request as it arrived
    query,            \* ctx.query.populate
    pc,               \* position of the middleware
    uid,              \* the middleware's local `uid`
    stack,            \* activation records of getDeepPopulate
    ret,              \* value returned by the root call
    nextCalls,        \* number of times next() was called
    queryAtNext,      \* ctx.query.populate when next() was called
    error,            \* "none", "caught" or "propagated"
    lastStop,         \* last evaluation of shouldStopAtCurrentDepth
    circular          \* type ids truncated by the circular-reference check

vars == <<DEPTH_CONFIG, schemas, request, query, pc, uid, stack, ret,
          nextCalls, queryAtNext, error, lastStop, circular>>

\* strapi.getModel(uid)
getModel(u) == IF u \in DOMAIN schemas THEN schemas[u] ELSE NoModel

\* the shallow cap is compared with > instead of >=
shouldStop_shallowLate(u, currentDepth, path) ==
    LET pathKey == getPathKey(path) IN
    IF pathKey \in DOMAIN DEPTH_CONFIG.pathDepths
    THEN currentDepth >= DEPTH_CONFIG.pathDepths[pathKey]
    ELSE IF u \in DEPTH_CONFIG.shallowPopulate
    THEN currentDepth > ShallowDepth
    ELSE IF u \in DEPTH_CONFIG.mediumPopulate
    THEN currentDepth >= MediumDepth
    ELSE currentDepth >= DefaultDepth

\* the path-depth map is not consulted
shouldStop_noPath(u, currentDepth, path) ==
    IF u \in DEPTH_CONFIG.shallowPopulate
    THEN currentDepth >= ShallowDepth
    ELSE IF u \in DEPTH_CONFIG.mediumPopulate
    THEN currentDepth >= MediumDepth
    ELSE currentDepth >= DefaultDepth

\* the medium set is consulted before the shallow set
shouldStop_mediumFirst(u, currentDepth, path) ==
    LET pathKey == getPathKey(path) IN
    IF pathKey \in DOMAIN DEPTH_CONFIG.pathDepths
    THEN currentDepth >= DEPTH_CONFIG.pathDepths[pathKey]
    ELSE IF u \in DEPTH_CONFIG.mediumPopulate
    THEN currentDepth >= MediumDepth
    ELSE IF u \in DEPTH_CONFIG.shallowPopulate
    THEN currentDepth >= ShallowDepth
    ELSE currentDepth >= DefaultDepth

shouldStopAtCurrentDepth(u, currentDepth, path) ==
    LET pathKey == getPathKey(path) IN
    IF pathKey \in DOMAIN DEPTH_CONFIG.pathDepths
    THEN currentDepth >= DEPTH_CONFIG.pathDepths[pathKey]
    ELSE IF u \in DEPTH_CONFIG.shallowPopulate
    THEN currentDepth >= ShallowDepth
    ELSE IF u \in DEPTH_CONFIG.mediumPopulate
    THEN currentDepth >= MediumDepth
    ELSE currentDepth >= DefaultDepth

\* options.visitedUIDs.has(uid) && options.currentDepth > 0
isCircular(u, currentDepth, visitedUIDs) ==
    u \in visitedUIDs /\ currentDepth > 0

\* the current type is not added to the copy
newVisitedUIDs_noAdd(visitedUIDs, u) == visitedUIDs

\* new Set(options.visitedUIDs).add(uid)
newVisitedUIDs(visitedUIDs, u) == visitedUIDs \cup {u}

\* the depth is passed on without the increment
childDepth_same(currentDepth) == currentDepth

\* currentDepth: options.currentDepth + 1
childDepth(currentDepth) == currentDepth + 1

\* the exclusion table is indexed by the field instead of the type
isExcluded_byField(u, attributeName) ==
    /\ attributeName \in DOMAIN DEPTH_CONFIG.excludeFields
    /\ attributeName \in DEPTH_CONFIG.excludeFields[attributeName]

\* DEPTH_CONFIG.excludeFields[uid] && ...includes(attributeName)
isExcluded(u, attributeName) ==
    /\ u \in DOMAIN DEPTH_CONFIG.excludeFields
    /\ attributeName \in DEPTH_CONFIG.excludeFields[u]

\* path.length > 0 ? `${path[path.length - 1]}.${attributeName}` : null
contextKey(path, attributeName) ==
    IF Len(path) > 0 THEN path[Len(path)] \o "." \o attributeName ELSE ""

hasIncludeOnly(path, attributeName) ==
    /\ Len(path) > 0
    /\ contextKey(path, attributeName) \in DOMAIN DEPTH_CONFIG.includeOnlyFields

Frame(u, currentDepth, visitedUIDs, path) ==
    [uid |-> u, currentDepth |-> currentDepth, visitedUIDs |-> visitedUIDs,
     path |-> path, st |-> "entry", idx |-> 0, acc |-> EmptyMap,
     dz |-> 0, on |-> EmptyMap]

StopRecord(u, currentDepth, path) ==
    [evaluated |-> TRUE, uid |-> u, currentDepth |-> currentDepth,
     path |-> path, result |-> shouldStopAtCurrentDepth(u, currentDepth, path)]

NoStopRecord ==
    [evaluated |-> FALSE, uid |-> "", currentDepth |-> 0, path |-> <<>>,
     result |-> FALSE]

\* the state when a request reaches the middleware
InitWith(configs, graphs, requests) ==
    /\ DEPTH_CONFIG \in configs
    /\ schemas \in graphs
    /\ request \in requests
    /\ query = request.populate
    /\ pc = "start"
    /\ uid = ""
    /\ stack = <<>>
    /\ ret = Undefined
    /\ nextCalls = 0
    /\ queryAtNext = Undefined
    /\ error = "none"
    /\ lastStop = NoStopRecord
    /\ circular = {}

Init == InitWith(DepthConfigs, SchemaGraphs, BuilderRequests)

\* the shipped configuration, every request
ShippedConfig == Config(ShippedShallow, {}, NoPathDepths, NoEntries, NoEntries)

\* a configuration with exclusions and include-only entries
TrimmedConfig ==
    Config({}, {}, NoPathDepths, (ART :> {"cover"}),
           ("author.owner" :> {"id", "name"}))

InitRequests ==
    InitWith({ShippedConfig, TrimmedConfig},
             {SchemaGraph(ROLE, TAG, CARD), SchemaGraph(GHOST, ROLE, FAULT)},
             Requests)

\* ----------------------------------------------------------- middleware
\* the caller's populate is not looked at
ShouldIntercept_anyPopulate ==
    /\ startsWithApi(request.url)
    /\ request.method = "GET"
    /\ ~includesApi(request.url, "users")
    /\ ~includesApi(request.url, "seo")

\* the condition of the outer `if`
ShouldIntercept ==
    /\ startsWithApi(request.url)
    /\ request.method = "GET"
    /\ IsFalsy(query)
    /\ ~includesApi(request.url, "users")
    /\ ~includesApi(request.url, "seo")

\* await next()
CallNext ==
    /\ nextCalls' = nextCalls + 1
    /\ queryAtNext' = query

\* the `if` is false: fall through to the final next()
Bypass ==
    /\ pc = "start"
    /\ ~ShouldIntercept
    /\ pc' = "final"
    /\ UNCHANGED <<DEPTH_CONFIG, schemas, request, query, uid, stack, ret,
                   nextCalls, queryAtNext, error, lastStop, circular>>

\* if (!contentType) { warn; await next(); return; }
NoContentType ==
    /\ pc = "start"
    /\ ShouldIntercept
    /\ extractPathSegment(request.url) = ""
    /\ CallNext
    /\ pc' = "done"
    /\ UNCHANGED <<DEPTH_CONFIG, schemas, request, query, uid, stack, ret,
                   error, lastStop, circular>>

\* the early `return` after next() is missing
NoSingular_noReturn ==
    /\ pc = "start"
    /\ ShouldIntercept
    /\ extractPathSegment(request.url) # ""
    /\ singular(extractPathSegment(request.url)) = ""
    /\ CallNext
    /\ pc' = "final"
    /\ UNCHANGED <<DEPTH_CONFIG, schemas, request, query, uid, stack, ret,
                   error, lastStop, circular>>

\* if (!singular) { warn; await next(); return; }
NoSingular ==
    /\ pc = "start"
    /\ ShouldIntercept
    /\ extractPathSegment(request.url) # ""
    /\ singular(extractPathSegment(request.url)) = ""
    /\ CallNext
    /\ pc' = "done"
    /\ UNCHANGED <<DEPTH_CONFIG, schemas, request, query, uid, stack, ret,
                   error, lastStop, circular>>

\* const uid = ...; try { getDeepPopulate(uid) ...
CallGetDeepPopulate ==
    /\ pc = "start"
    /\ ShouldIntercept
    /\ extractPathSegment(request.url) # ""
    /\ singular(extractPathSegment(request.url)) # ""
    /\ uid' = uidOf(singular(extractPathSegment(request.url)))
    /\ stack' = << Frame(uid', 0, {}, <<>>) >>
    /\ pc' = "traverse"
    /\ UNCHANGED <<DEPTH_CONFIG, schemas, request, query, ret,
                   nextCalls, queryAtNext, error, lastStop, circular>>

\* ctx.query.populate = populateConfig
Attach ==
    /\ pc = "attach"
    /\ query' = ret
    /\ pc' = "final"
    /\ UNCHANGED <<DEPTH_CONFIG, schemas, request, uid, stack, ret,
                   nextCalls, queryAtNext, error, lastStop, circular>>

\* catch (error) { strapi.log.error(...) }
Catch ==
    /\ pc = "catch"
    /\ error' = "caught"
    /\ pc' = "final"
    /\ UNCHANGED <<DEPTH_CONFIG, schemas, request, query, uid, stack, ret,
                   nextCalls, queryAtNext, lastStop, circular>>

\* the final await next()
FinalNext ==
    /\ pc = "final"
    /\ CallNext
    /\ pc' = "done"
    /\ UNCHANGED <<DEPTH_CONFIG, schemas, request, query, uid, stack, ret,
                   error, lastStop, circular>>

\* ------------------------------------------------------ getDeepPopulate
top == stack[Len(stack)]
model == getModel(top.uid)
attribute == model.attributes[top.idx]
attributeName == attribute.name
currentPath == Append(top.path, attributeName)

AtEntry == pc = "traverse" /\ stack # <<>> /\ top.st = "entry"
AtAttribute ==
    /\ pc = "traverse" /\ stack # <<>> /\ top.st = "loop" /\ top.dz = 0
    /\ top.idx <= Len(model.attributes)
\* the attribute reaches the `switch`
AtSwitch ==
    /\ AtAttribute
    /\ ~isExcluded(top.uid, attributeName)
    /\ ~hasIncludeOnly(top.path, attributeName)

\* the opts the middleware passes carry no relationalFields
relationalFieldsAllow(name) == TRUE

\* contentTypes.isVisibleAttribute(model, attributeName)
isVisibleAttribute(attr) == attr.visible

\* the morph and provenance tests are missing
RelationPasses_noSkip ==
    /\ attribute.type = "relation"
    /\ relationalFieldsAllow(attributeName)

\* the relation is neither morph nor provenance, and passes the `if`
RelationPasses ==
    /\ attribute.type = "relation"
    /\ ~isMorphRelation(attribute)
    /\ attributeName \notin {CREATED_BY_ATTRIBUTE, UPDATED_BY_ATTRIBUTE}
    /\ isVisibleAttribute(attribute)
    /\ relationalFieldsAllow(attributeName)

ReplaceTop(frame) == stack' = [stack EXCEPT ![Len(stack)] = frame]

\* acc[attributeName] = entry; return acc  (next attribute)
Emit(entry) ==
    ReplaceTop([top EXCEPT !.acc = (attributeName :> entry) @@ @,
                           !.idx = @ + 1])

\* the call of the top frame returns `result` to its caller
Return(result) ==
    IF Len(stack) = 1
    THEN /\ stack' = <<>>
         /\ ret' = result
         /\ pc' = "attach"
    ELSE LET parent == stack[Len(stack) - 1]
             field == getModel(parent.uid).attributes[parent.idx]
             resumed ==
               IF parent.dz > 0
               THEN [parent EXCEPT
                       !.on = (field.components[parent.dz] :> WrapNested(result)) @@ @,
                       !.dz = @ + 1]
               ELSE [parent EXCEPT
                       !.acc = (field.name :> WrapNested(result)) @@ @,
                       !.idx = @ + 1]
         IN /\ stack' = Append(SubSeq(stack, 1, Len(stack) - 2), resumed)
            /\ UNCHANGED <<ret, pc>>

\* getDeepPopulate(u, {...options, currentDepth + 1, newVisitedUIDs}, path)
Call(u, path) ==
    /\ Len(stack) < MaxStack
    /\ stack' = Append(stack,
                       Frame(u, childDepth(top.currentDepth),
                             newVisitedUIDs(top.visitedUIDs, top.uid), path))

EntryStop == StopRecord(top.uid, top.currentDepth, top.path)

\* if (shouldStopAtCurrentDepth(...)) return '*'
DepthStop ==
    /\ AtEntry
    /\ shouldStopAtCurrentDepth(top.uid, top.currentDepth, top.path)
    /\ Return(Wildcard)
    /\ lastStop' = EntryStop
    /\ UNCHANGED <<DEPTH_CONFIG, schemas, request, query, uid,
                   nextCalls, queryAtNext, error, circular>>

\* if (visitedUIDs.has(uid) && currentDepth > 0) return '*'
CircularStop ==
    /\ AtEntry
    /\ ~shouldStopAtCurrentDepth(top.uid, top.currentDepth, top.path)
    /\ isCircular(top.uid, top.currentDepth, top.visitedUIDs)
    /\ Return(Wildcard)
    /\ lastStop' = EntryStop
    /\ circular' = circular \cup {top.uid}
    /\ UNCHANGED <<DEPTH_CONFIG, schemas, request, query, uid,
                   nextCalls, queryAtNext, error>>

PastChecks ==
    /\ AtEntry
    /\ ~shouldStopAtCurrentDepth(top.uid, top.currentDepth, top.path)
    /\ ~isCircular(top.uid, top.currentDepth, top.visitedUIDs)

\* a missing model is raised as an error
ModelNotFound_failClosed ==
    /\ PastChecks
    /\ model.status = "undefined"
    /\ stack' = <<>>
    /\ pc' = "catch"
    /\ lastStop' = EntryStop
    /\ UNCHANGED <<DEPTH_CONFIG, schemas, request, query, uid, ret,
                   nextCalls, queryAtNext, error, circular>>

\* if (!model) return '*'
ModelNotFound ==
    /\ PastChecks
    /\ model.status = "undefined"
    /\ Return(Wildcard)
    /\ lastStop' = EntryStop
    /\ UNCHANGED <<DEPTH_CONFIG, schemas, request, query, uid,
                   nextCalls, queryAtNext, error, circular>>

\* schema introspection throws: the exception unwinds to the try block
ModelThrows ==
    /\ PastChecks
    /\ model.status = "throws"
    /\ stack' = <<>>
    /\ pc' = "catch"
    /\ lastStop' = EntryStop
    /\ UNCHANGED <<DEPTH_CONFIG, schemas, request, query, uid, ret,
                   nextCalls, queryAtNext, error, circular>>

\* the model was found: start the reduce over its attributes
EnterModel ==
    /\ PastChecks
    /\ model.status = "ok"
    /\ ReplaceTop([top EXCEPT !.st = "loop", !.idx = 1])
    /\ lastStop' = EntryStop
    /\ UNCHANGED <<DEPTH_CONFIG, schemas, request, query, pc, uid, ret,
                   nextCalls, queryAtNext, error, circular>>

Unchanged_Loop ==
    UNCHANGED <<DEPTH_CONFIG, schemas, request, query, pc, uid, ret,
                nextCalls, queryAtNext, error, circular>>

\* the field is excluded for this type: return acc
ExcludeField ==
    /\ AtAttribute
    /\ isExcluded(top.uid, attributeName)
    /\ ReplaceTop([top EXCEPT !.idx = @ + 1])
    /\ UNCHANGED lastStop
    /\ Unchanged_Loop

\* an include-only entry matches the context key
IncludeOnly ==
    /\ AtAttribute
    /\ ~isExcluded(top.uid, attributeName)
    /\ hasIncludeOnly(top.path, attributeName)
    /\ Emit(FieldList(
         DEPTH_CONFIG.includeOnlyFields[contextKey(top.path, attributeName)]))
    /\ UNCHANGED lastStop
    /\ Unchanged_Loop

\* morph, provenance, invisible relation, or the `default` case
SkipAttribute ==
    /\ AtSwitch
    /\ \/ attribute.type = "relation" /\ ~RelationPasses
       \/ attribute.type \notin {"relation", "media", "component", "dynamiczone"}
    /\ ReplaceTop([top EXCEPT !.idx = @ + 1])
    /\ UNCHANGED lastStop
    /\ Unchanged_Loop

\* the target stops one level deeper, or there is no target
RelationWildcard ==
    /\ AtSwitch
    /\ RelationPasses
    /\ \/ shouldStopAtCurrentDepth(attribute.target, top.currentDepth + 1,
                                   currentPath)
       \/ attribute.target = ""
    /\ Emit(Populate(Wildcard))
    /\ lastStop' = StopRecord(attribute.target, top.currentDepth + 1, currentPath)
    /\ Unchanged_Loop

\* continue with deep populate
RecurseRelation ==
    /\ AtSwitch
    /\ RelationPasses
    /\ ~shouldStopAtCurrentDepth(attribute.target, top.currentDepth + 1,
                                 currentPath)
    /\ attribute.target # ""
    /\ Call(attribute.target, currentPath)
    /\ lastStop' = StopRecord(attribute.target, top.currentDepth + 1, currentPath)
    /\ Unchanged_Loop

\* case 'media'
MediaAttribute ==
    /\ AtSwitch
    /\ attribute.type = "media"
    /\ Emit(Populate(Wildcard))
    /\ UNCHANGED lastStop
    /\ Unchanged_Loop

\* case 'component'
RecurseComponent ==
    /\ AtSwitch
    /\ attribute.type = "component"
    /\ Call(attribute.component, currentPath)
    /\ UNCHANGED lastStop
    /\ Unchanged_Loop

\* case 'dynamiczone': start the reduce over attribute.components
DynamicZoneStart ==
    /\ AtSwitch
    /\ attribute.type = "dynamiczone"
    /\ ReplaceTop([top EXCEPT !.dz = 1, !.on = EmptyMap])
    /\ UNCHANGED lastStop
    /\ Unchanged_Loop

InDynamicZone ==
    /\ pc = "traverse" /\ stack # <<>> /\ top.st = "loop" /\ top.dz > 0

\* getDeepPopulate(componentUID, ..., [...currentPath, componentUID])
DynamicZoneVariant ==
    /\ InDynamicZone
    /\ top.dz <= Len(attribute.components)
    /\ Call(attribute.components[top.dz],
            Append(currentPath, attribute.components[top.dz]))
    /\ UNCHANGED lastStop
    /\ Unchanged_Loop

\* acc[attributeName] = { on: populatedComponents }
DynamicZoneDone ==
    /\ InDynamicZone
    /\ top.dz > Len(attribute.components)
    /\ ReplaceTop([top EXCEPT !.acc = (attributeName :> OnVariants(top.on)) @@ @,
                              !.idx = @ + 1, !.dz = 0, !.on = EmptyMap])
    /\ UNCHANGED lastStop
    /\ Unchanged_Loop

\* the reduce is over: return the accumulated mapping
ReturnMapping ==
    /\ pc = "traverse" /\ stack # <<>> /\ top.st = "loop" /\ top.dz = 0
    /\ top.idx > Len(model.attributes)
    /\ Return(Mapping(top.acc))
    /\ UNCHANGED <<DEPTH_CONFIG, schemas, request, query, uid,
                   nextCalls, queryAtNext, error, lastStop, circular>>

Next ==
    \/ Bypass
    \/ NoContentType
    \/ NoSingular
    \/ CallGetDeepPopulate
    \/ DepthStop
    \/ CircularStop
    \/ ModelNotFound
    \/ ModelThrows
    \/ EnterModel
    \/ ExcludeField
    \/ IncludeOnly
    \/ SkipAttribute
    \/ RelationWildcard
    \/ RecurseRelation
    \/ MediaAttribute
    \/ RecurseComponent
    \/ DynamicZoneStart
    \/ DynamicZoneVariant
    \/ DynamicZoneDone
    \/ ReturnMapping
    \/ Attach
    \/ Catch
    \/ FinalNext

Spec == Init /\ [][Next]_vars

\* the handler is a sequential program: it keeps taking steps
FairSpec == Spec /\ WF_vars(Next)

\* every request against the shipped configuration
RequestSpec == InitRequests /\ [][Next]_vars

Terminated == pc = "done"

\* ------------------------------------------------------------ properties
Frames == { stack[i] : i \in DOMAIN stack }

\* the attribute of type u whose name is k
attributeOf(u, k) ==
    LET attrs == getModel(u).attributes
    IN attrs[CHOOSE i \in DOMAIN attrs : attrs[i].name = k]

\* C1: from a root call at depth 0 with an empty visited set and an empty
\* path the builder terminates, whatever the schema graph and the
\* DepthConfig are: the request always reaches the end of the handler.
C1_Terminates == <>Terminated

\* a traversal of a cyclic graph that was cut by the visited set is over
C1_Witness ==
    /\ pc = "done"
    /\ circular # {}
    /\ query.t = "mapping"

\* C2: shouldStop applies its rules in strict precedence: the path
\* override, then the shallow set, then the medium set, then the default.
C2_Precedence ==
    lastStop.evaluated =>
      LET key == getPathKey(lastStop.path)
          overridden == key \in DOMAIN DEPTH_CONFIG.pathDepths
          shallow == lastStop.uid \in DEPTH_CONFIG.shallowPopulate
          medium == lastStop.uid \in DEPTH_CONFIG.mediumPopulate
          d == lastStop.currentDepth
      IN /\ overridden =>
              (lastStop.result <=> d >= DEPTH_CONFIG.pathDepths[key])
         /\ (~overridden /\ shallow) => (lastStop.result <=> d >= 1)
         /\ (~overridden /\ ~shallow /\ medium) => (lastStop.result <=> d >= 2)
         /\ (~overridden /\ ~shallow /\ ~medium) => (lastStop.result <=> d >= 3)

\* a type in both sets was evaluated at depth 1 with no override: it stops
C2_Witness ==
    /\ lastStop.evaluated
    /\ lastStop.uid \in DEPTH_CONFIG.shallowPopulate
    /\ lastStop.uid \in DEPTH_CONFIG.mediumPopulate
    /\ getPathKey(lastStop.path) \notin DOMAIN DEPTH_CONFIG.pathDepths
    /\ lastStop.currentDepth = 1
    /\ lastStop.result

\* the type a relation or component field leads to
targetOf(attr) == IF attr.type = "component" THEN attr.component ELSE attr.target

\* a field entry that nests a mapping below it
IsNonLeaf(entry) ==
    \/ entry.t = "populate" /\ entry.v.t = "mapping"
    \/ entry.t = "on" /\ \E c \in DOMAIN entry.v : entry.v[c].v.t = "mapping"

IsMorphOrProvenance(attr) ==
    /\ attr.type = "relation"
    /\ \/ isMorphRelation(attr)
       \/ attr.name \in {CREATED_BY_ATTRIBUTE, UPDATED_BY_ATTRIBUTE}

\* C3 as stated: the directive built for a shallow type as the root has
\* no field whose nested directive is non-leaf.
C3_ShallowRootIsFlat ==
    (pc = "done" /\ error = "none" /\ uid \in DEPTH_CONFIG.shallowPopulate
       /\ query.t = "mapping")
      => \A k \in DOMAIN query.m : ~IsNonLeaf(query.m[k])

\* C3 amended: a relation or component field whose target is in the
\* shallow set, on a path with no path-depth override and no include-only
\* entry, carries the wildcard populate, whatever type declares it.
C3_ShallowTargetIsWildcard ==
    \A f \in Frames : \A k \in DOMAIN f.acc :
       LET attr == attributeOf(f.uid, k) IN
       ( /\ attr.type \in {"relation", "component"}
         /\ targetOf(attr) \in DEPTH_CONFIG.shallowPopulate
         /\ getPathKey(Append(f.path, k)) \notin DOMAIN DEPTH_CONFIG.pathDepths
         /\ ~hasIncludeOnly(f.path, k) )
       => f.acc[k] = Populate(Wildcard)

\* a type with a model, in the shallow set, was reached through a relation
\* while its declaring type nests other fields
C3_Witness ==
    \E f \in Frames : \E k, j \in DOMAIN f.acc :
       LET attr == attributeOf(f.uid, k) IN
       /\ attr.type = "relation"
       /\ attr.target \in DEPTH_CONFIG.shallowPopulate
       /\ getModel(attr.target).status = "ok"
       /\ getPathKey(Append(f.path, k)) \notin DOMAIN DEPTH_CONFIG.pathDepths
       /\ f.acc[k] = Populate(Wildcard)
       /\ IsNonLeaf(f.acc[j])

\* C4: a branch whose path has an override N builds a mapping only at a
\* depth below N, so the calls it makes are at depth N at most, and a field
\* whose path has an override N reached at depth N or more is the wildcard,
\* whatever set its type is in.
C4_OverrideCaps ==
    /\ \A i \in DOMAIN stack :
         LET f == stack[i]
             key == getPathKey(f.path)
         IN (f.st = "loop" /\ key \in DOMAIN DEPTH_CONFIG.pathDepths)
            => /\ f.currentDepth < DEPTH_CONFIG.pathDepths[key]
               /\ i < Len(stack)
                    => stack[i + 1].currentDepth <= DEPTH_CONFIG.pathDepths[key]
    /\ \A f \in Frames : \A k \in DOMAIN f.acc :
         LET attr == attributeOf(f.uid, k)
             key == getPathKey(Append(f.path, k))
         IN ( /\ attr.type \in {"relation", "component"}
              /\ key \in DOMAIN DEPTH_CONFIG.pathDepths
              /\ f.currentDepth + 1 >= DEPTH_CONFIG.pathDepths[key]
              /\ ~hasIncludeOnly(f.path, k) )
            => f.acc[k] = Populate(Wildcard)
    /\ \A f \in Frames : \A c \in DOMAIN f.on :
         LET attr == getModel(f.uid).attributes[f.idx]
             key == getPathKey(Append(Append(f.path, attr.name), c))
         IN ( /\ key \in DOMAIN DEPTH_CONFIG.pathDepths
              /\ f.currentDepth + 1 >= DEPTH_CONFIG.pathDepths[key] )
            => f.on[c] = Populate(Wildcard)

\* an override stopped a type that is in no set below the default cap
C4_Witness ==
    /\ lastStop.evaluated
    /\ getPathKey(lastStop.path) \in DOMAIN DEPTH_CONFIG.pathDepths
    /\ lastStop.uid \notin DEPTH_CONFIG.shallowPopulate
    /\ lastStop.uid \notin DEPTH_CONFIG.mediumPopulate
    /\ getModel(lastStop.uid).status = "ok"
    /\ lastStop.currentDepth >= 1
    /\ lastStop.currentDepth < DefaultDepth
    /\ lastStop.result

\* C5: the visited set of a call is exactly the set of the type ids of its
\* ancestors, and a type that is its own ancestor builds no mapping.
C5_VisitedIsAncestors ==
    \A i \in DOMAIN stack :
       LET ancestors == { stack[j].uid : j \in 1..(i - 1) } IN
       /\ stack[i].visitedUIDs = ancestors
       /\ (i > 1 /\ stack[i].st = "loop") => stack[i].uid \notin ancestors

\* a type cut as a cycle on one branch is built on a sibling branch
C5_Witness ==
    \E i \in DOMAIN stack :
       /\ i > 1
       /\ stack[i].st = "loop"
       /\ stack[i].uid \in circular

\* C6 as stated: morph and provenance relations are never keys of a
\* directive.
C6_NeverMorphOrProvenance ==
    \A f \in Frames : \A k \in DOMAIN f.acc :
       ~IsMorphOrProvenance(attributeOf(f.uid, k))

\* C6 amended: a morph or provenance relation is a key of a directive only
\* where an include-only entry matches its context key.
C6_MorphOrProvenanceOnlyIncluded ==
    \A f \in Frames : \A k \in DOMAIN f.acc :
       IsMorphOrProvenance(attributeOf(f.uid, k)) => hasIncludeOnly(f.path, k)

\* the reduce over a type with a morph and a provenance relation is over,
\* no include-only entry matched them, and they are not keys
C6_Witness ==
    \E f \in Frames :
       LET attrs == getModel(f.uid).attributes IN
       /\ f.st = "loop"
       /\ f.idx > Len(attrs)
       /\ DOMAIN f.acc # {}
       /\ \E i \in DOMAIN attrs :
            /\ isMorphRelation(attrs[i])
            /\ ~hasIncludeOnly(f.path, attrs[i].name)
            /\ attrs[i].name \notin DOMAIN f.acc
       /\ \E i \in DOMAIN attrs :
            /\ attrs[i].name = UPDATED_BY_ATTRIBUTE
            /\ ~hasIncludeOnly(f.path, attrs[i].name)
            /\ attrs[i].name \notin DOMAIN f.acc

\* C7: a field excluded for a type is never a key of the mapping built for
\* that type.
C7_ExcludedNeverKeys ==
    /\ \A f \in Frames :
         f.uid \in DOMAIN DEPTH_CONFIG.excludeFields
           => DOMAIN f.acc \cap DEPTH_CONFIG.excludeFields[f.uid] = {}
    /\ (pc \in {"attach", "final", "done"} /\ ret.t = "mapping"
          /\ uid \in DOMAIN DEPTH_CONFIG.excludeFields)
         => DOMAIN ret.m \cap DEPTH_CONFIG.excludeFields[uid] = {}

\* the reduce is over for a type with an excluded field that an include-only
\* entry matches as well
C7_Witness ==
    \E f \in Frames :
       /\ f.st = "loop"
       /\ f.idx > Len(getModel(f.uid).attributes)
       /\ f.uid \in DOMAIN DEPTH_CONFIG.excludeFields
       /\ \E k \in DEPTH_CONFIG.excludeFields[f.uid] :
            /\ hasIncludeOnly(f.path, k)
            /\ \E i \in DOMAIN getModel(f.uid).attributes :
                 getModel(f.uid).attributes[i].name = k

\* every emitted relation or component field whose target has no model
\* carries the wildcard populate, and so does the root result
UnknownTargetsAreWildcard ==
    /\ \A f \in Frames : \A k \in DOMAIN f.acc :
         LET attr == attributeOf(f.uid, k) IN
         ( /\ attr.type \in {"relation", "component"}
           /\ getModel(targetOf(attr)).status = "undefined"
           /\ ~hasIncludeOnly(f.path, k) )
         => f.acc[k] = Populate(Wildcard)
    /\ (pc = "attach" /\ getModel(uid).status = "undefined") => ret = Wildcard

\* the call on top of the stack is for a type without a model: it returns
\* the wildcard to its caller, raises nothing, and leaves the caller's other
\* fields as they were
UnknownReturnsWildcard ==
    (pc = "traverse" /\ stack # <<>> /\ top.st = "entry"
       /\ getModel(top.uid).status = "undefined")
    => /\ pc' # "catch"
       /\ error' = error
       /\ Len(stack') = Len(stack) - 1
       /\ IF Len(stack) = 1
          THEN ret' = Wildcard /\ pc' = "attach"
          ELSE LET before == stack[Len(stack) - 1]
                   after == stack'[Len(stack) - 1]
                   field == getModel(before.uid).attributes[before.idx]
               IN IF before.dz = 0
                  THEN /\ DOMAIN after.acc = DOMAIN before.acc \cup {field.name}
                       /\ after.acc[field.name] = Populate(Wildcard)
                       /\ \A k \in DOMAIN before.acc \ {field.name} :
                            after.acc[k] = before.acc[k]
                  ELSE /\ after.acc = before.acc
                       /\ after.on[field.components[before.dz]]
                            = Populate(Wildcard)
                       /\ \A c \in DOMAIN before.on :
                            after.on[c] = before.on[c]

\* C8: schema lookup failure is fail-open: a call for a type without a
\* model returns the wildcard and raises no error, as the root and deeper;
\* the field that leads to it gets the wildcard populate and its sibling
\* fields are unchanged.
C8_FailOpen == [][UnknownReturnsWildcard /\ UnknownTargetsAreWildcard']_vars

\* a relation to a type without a model, below every cap, carries the
\* wildcard next to a sibling field
C8_Witness ==
    \E f \in Frames : \E k, j \in DOMAIN f.acc :
       LET attr == attributeOf(f.uid, k) IN
       /\ j # k
       /\ attr.type = "relation"
       /\ attr.target # ""
       /\ getModel(attr.target).status = "undefined"
       /\ ~shouldStopAtCurrentDepth(attr.target, f.currentDepth + 1,
                                    Append(f.path, k))
       /\ ~hasIncludeOnly(f.path, k)
       /\ f.acc[k] = Populate(Wildcard)

\* the conditions of the interception, as the contract states them
IsRead == request.method = "GET"
UnderContentApi == startsWithApi(request.url)
NoDirectiveSupplied == request.populate.t \in {"undefined", "emptystring"}
TargetNotExcluded ==
    Len(request.url) >= 4 => request.url[4] \notin {"users", "seo"}
NameExtracted == extractPathSegment(request.url) # ""
NameSingularized == singular(extractPathSegment(request.url)) # ""

C10_NextExactlyOnce ==
    /\ nextCalls <= 1
    /\ pc = "done" => nextCalls = 1
    /\ nextCalls = 1 => (pc = "done" /\ query = queryAtNext)
    /\ error # "propagated"
    /\ pc = "done" => stack = <<>>

\* the request whose name cannot be singularized was passed on once
C10_Witness ==
    /\ pc = "done"
    /\ nextCalls = 1
    /\ ShouldIntercept
    /\ NameExtracted
    /\ ~NameSingularized

\* the largest element of a finite set of naturals, 0 for the empty set
MaxOf(S) == IF S = {} THEN 0 ELSE CHOOSE x \in S : \A y \in S : y <= x

\* the number of `populate` keys on the longest chain of a directive
RECURSIVE PopulateLevels(_)
PopulateLevels(d) ==
    IF d.t # "mapping" THEN 0
    ELSE MaxOf({ IF d.m[k].t = "populate"
                 THEN 1 + PopulateLevels(d.m[k].v)
                 ELSE MaxOf({ 1 + PopulateLevels(d.m[k].v[c].v) :
                              c \in DOMAIN d.m[k].v })
                 : k \in DOMAIN d.m })

\* a populate value that came back from the recursion: the wildcard or a
\* mapping with at least one key
IsWildcardOrNonEmpty(entry) ==
    /\ entry.t = "populate"
    /\ \/ entry.v = Wildcard
       \/ entry.v.t = "mapping" /\ DOMAIN entry.v.m # {}

\* C11: with an empty path-depth map no call of the builder is made at a
\* depth above 3 and a mapping is built at depths 0, 1 and 2 only, so the
\* directive attached to the request nests populate three levels at most;
\* and a relation field, a component field or a dynamic-zone variant never
\* carries an empty mapping as its populate value.
C11_DefaultCapAndFallback ==
    /\ DEPTH_CONFIG.pathDepths = NoPathDepths =>
         /\ \A f \in Frames :
              /\ f.currentDepth <= 3
              /\ f.st = "loop" => f.currentDepth <= 2
         /\ pc = "done" => PopulateLevels(query) <= 3
    /\ \A f \in Frames :
         /\ \A k \in DOMAIN f.acc :
              ( /\ attributeOf(f.uid, k).type \in {"relation", "component"}
                /\ ~hasIncludeOnly(f.path, k) )
              => IsWildcardOrNonEmpty(f.acc[k])
         /\ \A c \in DOMAIN f.on : IsWildcardOrNonEmpty(f.on[c])

\* a directive three levels deep was attached, in which a component whose
\* own mapping is empty carries the wildcard
C11_Witness ==
    /\ pc = "done"
    /\ DEPTH_CONFIG.pathDepths = NoPathDepths
    /\ PopulateLevels(query) = 3
    /\ "blocks" \in DOMAIN query.m
    /\ query.m["blocks"].v[CTA].v.t = "mapping"
    /\ query.m["blocks"].v[CTA].v.m["ctas"] = Populate(Wildcard)

====
